---- MODULE Spec2Model ----
(***************************************************************************)
(* Fluidkeys team roster synchronisation: `fk team fetch` (teamFetch),     *)
(* the join-request phase (processRequestsToJoinTeam), the per-membership  *)
(* roster update (doUpdateTeam, fetchAndUpdateRoster, fetchTeamKeys), the  *)
(* API client call GetTeamRoster, and the roster update validator          *)
(* (team.ValidateUpdate).                                                  *)
(*                                                                         *)
(* Abstractions: a fingerprint, a team UUID and a team name are opaque     *)
(* strings; a roster document is the team it describes, or a document      *)
(* that does not parse; a detached signature is the pair (signing key,     *)
(* document signed); time is counted in whole days.  A person's email is   *)
(* only ever printed by the code modelled here and is left out.            *)
(***************************************************************************)
EXTENDS Integers, Sequences, FiniteSets, TLC

\* ---------------------------------------------------------------- bounds
MaxRequests == 2    \* number of locally stored join requests
MaxPeople == 2      \* longest people list handed to ValidateUpdate
MaxDownloads == 2   \* new rosters the service hands out during one run
Today == 8          \* the day teamFetch runs, in days since the first request

\* ------------------------------------------------------ program constants
ExpiryDays == 7
StatusOK == 200
StatusForbidden == 403
StatusNotFound == 404
StatusUnauthorized == 401
StatusConflict == 409
StatusServerError == 500
NoResponse == 0     \* the nil *http.Response

\* ------------------------------------------------------------ data model
FPs == {"fpA", "fpB"}
MyFpr == "fpA"
UUIDs == {"u1", "u2"}
Names == {"Acme", "Acme2"}
Layouts == {"canon"}

Persons == [Fingerprint : FPs, IsAdmin : BOOLEAN]

Person(f, admin) == [Fingerprint |-> f, IsAdmin |-> admin]

\* The people lists a roster of the model may carry: I am the only admin;
\* a member has been added; the admin role has gone to the other key.
PeopleLists ==
    { <<Person("fpA", TRUE)>>,
      <<Person("fpA", TRUE), Person("fpB", FALSE)>>,
      <<Person("fpA", FALSE), Person("fpB", TRUE)>> }

\* The empty string a failed call returns for a roster.
NoRoster == [UUID |-> "", Name |-> "", People |-> <<>>, layout |-> "empty"]

\* A document that is not a roster at all.
MalformedRoster == [UUID |-> "", Name |-> "", People |-> <<>>, layout |-> "garbage"]

WellFormedRosters == [UUID : UUIDs, Name : Names, People : PeopleLists, layout : Layouts]

Rosters == WellFormedRosters \cup {MalformedRoster}

\* The empty string a failed call returns for a signature.
NoSignature == [signer |-> "", over |-> NoRoster]

Sign(fpr, roster) == [signer |-> fpr, over |-> roster]

NoTeam == [UUID |-> "", Name |-> "", People |-> <<>>, roster |-> NoRoster,
           signature |-> NoSignature]

\* Error values.  "nil" is Go's nil error.
Nil == "nil"
ErrForbidden == "Forbidden"
ErrTeamNotFound == "Team not found"
ErrTransport == "transport error"
ErrDecode == "json decode error"
ErrLoad == "failed to load roster"
ErrSignature == "signature invalid"
ErrNoKey == "failed multiple attempts to find get public key"
ErrUnlock == "failed to unlock key"
ErrDirectory == "failed to get team subdirectory"
ErrSave == "failed to save roster"
ErrDelete == "failed to delete request"
ErrList == "failed to list"
ErrDownload == "error downloading team roster"
ErrAdminKeys == "error getting team admin public keys"
ErrValidate == "couldn't validate signature on updated roster"
ErrNotFoundKey == "Couldn't find key"
ErrServer == "Got error from Fluidkeys server"
ErrArmor == "failed to ASCII armor key"
ErrGpgImport == "Failed to import key into gpg"
ErrUUIDChanged == "can't change team UUID"
ErrNameChanged == "can't change team name"
ErrNotImplemented == "not implemented"

ErrSignIn == "Couldn't sign in to API"
ErrAPI == "API error"

\* ------------------------------------------------------- team package
\* team.Load: parse a roster document (and keep it, with its signature).
Load(roster, signature) ==
    IF roster \in WellFormedRosters
    THEN [team |-> [UUID |-> roster.UUID, Name |-> roster.Name,
                    People |-> roster.People, roster |-> roster,
                    signature |-> signature],
          err |-> Nil]
    ELSE [team |-> NoTeam, err |-> ErrLoad]

\* Team.Roster(): the document and signature the team was loaded from.
TeamRoster(t) == t.roster

\* Team.Admins(): the fingerprints of the people flagged admin, in order.
Admins(t) ==
    LET F[i \in 0..Len(t.People)] ==
            IF i = 0 THEN <<>>
            ELSE IF t.People[i].IsAdmin
                 THEN Append(F[i - 1], t.People[i].Fingerprint)
                 ELSE F[i - 1]
    IN F[Len(t.People)]

Range(s) == { s[i] : i \in DOMAIN s }

\* team.VerifyRoster: the detached signature is over exactly this document
\* and was made by one of the candidate keys.
VerifyRoster(roster, signature, adminKeys) ==
    IF \E k \in Range(adminKeys) : signature.signer = k /\ signature.over = roster
    THEN Nil
    ELSE ErrSignature

\* team.Directory: the per-team directory of the trusted store.
Directory(t) == t.UUID

\* ------------------------------------------------- team.ValidateUpdate
validateTeamUUID(before, after) ==
    IF before.UUID # after.UUID THEN ErrUUIDChanged ELSE Nil

validateTeamNameCantChange(before, after) ==
    IF before.Name # after.Name THEN ErrNameChanged ELSE Nil

\* validateIAmAdmin as it would be if it accepted every update.
validateIAmAdminAccepts(before, after, me) == Nil

validateIAmAdmin(before, after, me) == ErrNotImplemented

\* ValidateUpdate as it would be without the rule on the team name.
ValidateUpdateNameFree(before, after, me) ==
    IF validateTeamUUID(before, after) # Nil
    THEN validateTeamUUID(before, after)
    ELSE IF validateIAmAdmin(before, after, me) # Nil
         THEN validateIAmAdmin(before, after, me)
         ELSE Nil

ValidateUpdate(before, after, me) ==
    IF validateTeamUUID(before, after) # Nil
    THEN validateTeamUUID(before, after)
    ELSE IF validateTeamNameCantChange(before, after) # Nil
         THEN validateTeamNameCantChange(before, after)
         ELSE IF validateIAmAdmin(before, after, me) # Nil
              THEN validateIAmAdmin(before, after, me)
              ELSE Nil

\* ---------------------------------------------------------- API client
\* What the HTTP round trip of one request produces: a transport failure, or
\* a response with a status, a content type and a body.
HttpStatuses == {StatusOK, StatusUnauthorized, StatusForbidden, StatusNotFound,
                 StatusConflict, StatusServerError}

HttpFailures ==
    {[failed |-> TRUE, status |-> NoResponse, body |-> "none",
      roster |-> NoRoster, signature |-> NoSignature]}
    \cup {[failed |-> FALSE, status |-> st, body |-> "none",
           roster |-> NoRoster, signature |-> NoSignature] :
             st \in HttpStatuses \ {StatusOK}}
    \cup {[failed |-> FALSE, status |-> StatusOK, body |-> b,
           roster |-> NoRoster, signature |-> NoSignature] :
             b \in {"badjson", "notjson"}}

HttpAnswer(roster, signature) ==
    [failed |-> FALSE, status |-> StatusOK, body |-> "json",
     roster |-> roster, signature |-> signature]

isSuccess(httpStatusCode) == httpStatusCode \div 100 = 2

isJSON(http) == http.body \in {"json", "badjson"}

makeErrorForAPIResponse(status) ==
    IF status = StatusUnauthorized THEN ErrSignIn ELSE ErrAPI

\* Client.do: the response (its status, NoResponse for nil), the error and
\* the decoded data.
do(http) ==
    IF http.failed
    THEN [response |-> NoResponse, err |-> ErrTransport,
          roster |-> NoRoster, signature |-> NoSignature]
    ELSE IF isSuccess(http.status)
         THEN IF isJSON(http)
              THEN IF http.body = "badjson"
                   THEN [response |-> NoResponse, err |-> ErrDecode,
                         roster |-> NoRoster, signature |-> NoSignature]
                   ELSE [response |-> http.status, err |-> Nil,
                         roster |-> http.roster, signature |-> http.signature]
              ELSE [response |-> http.status, err |-> Nil,
                    roster |-> NoRoster, signature |-> NoSignature]
         ELSE [response |-> http.status,
               err |-> makeErrorForAPIResponse(http.status),
               roster |-> NoRoster, signature |-> NoSignature]

\* Client.GetTeamRoster as it would be without the switch on the status.
GetTeamRosterNoSwitch(http) ==
    LET r == do(http) IN
    IF r.err # Nil
    THEN [roster |-> NoRoster, signature |-> NoSignature, err |-> r.err]
    ELSE [roster |-> r.roster, signature |-> r.signature, err |-> Nil]

\* Client.GetTeamRoster
GetTeamRoster(http) ==
    LET r == do(http) IN
    IF r.err # Nil
    THEN IF r.response = NoResponse
         THEN [roster |-> NoRoster, signature |-> NoSignature, err |-> r.err]
         ELSE IF r.response = StatusNotFound
              THEN [roster |-> NoRoster, signature |-> NoSignature,
                    err |-> ErrTeamNotFound]
              ELSE IF r.response = StatusForbidden
                   THEN [roster |-> NoRoster, signature |-> NoSignature,
                         err |-> ErrForbidden]
                   ELSE [roster |-> NoRoster, signature |-> NoSignature,
                         err |-> r.err]
    ELSE [roster |-> r.roster, signature |-> r.signature, err |-> Nil]

\* ------------------------------------------------------ key discovery
\* discoverPublicKey: the local keyring first, then the key server.  A key
\* is named by its fingerprint; remoteKeys are the fingerprints the key
\* server answers for.
discoverPublicKey(fingerprint, localKeys, remoteKeys) ==
    IF fingerprint \in localKeys
    THEN [key |-> fingerprint, err |-> Nil, asked |-> <<"local">>]
    ELSE IF fingerprint \in remoteKeys
         THEN [key |-> fingerprint, err |-> Nil, asked |-> <<"local", "remote">>]
         ELSE [key |-> "", err |-> ErrNoKey, asked |-> <<"local", "remote">>]

\* fetchAdminPublicKeys as it would be if an admin whose key is found
\* nowhere were skipped.
fetchAdminPublicKeysSkipping(t, localKeys, remoteKeys) ==
    LET admins == SelectSeq(Admins(t),
                            LAMBDA f : f \in localKeys \cup remoteKeys)
        Found(i) == discoverPublicKey(admins[i], localKeys, remoteKeys)
        Q[i \in 0..Len(admins)] ==
            IF i = 0 THEN <<>>
            ELSE Q[i - 1] \o [j \in DOMAIN Found(i).asked |->
                                [fpr |-> admins[i], where |-> Found(i).asked[j]]]
    IN [adminKeys |-> [i \in DOMAIN admins |-> Found(i).key], err |-> Nil,
        asked |-> Q[Len(admins)]]

\* fetchAdminPublicKeys: the keys of every admin of t, or an error and no
\* key at all.  asked is the record of the lookups made: the admins are
\* taken in order and the first one whose key is not found ends the call.
fetchAdminPublicKeys(t, localKeys, remoteKeys) ==
    LET admins == Admins(t)
        Found(i) == discoverPublicKey(admins[i], localKeys, remoteKeys)
        bad == { i \in DOMAIN admins : Found(i).err # Nil }
        last == IF bad = {} THEN Len(admins)
                ELSE CHOOSE i \in bad : \A k \in bad : i <= k
        Q[i \in 0..Len(admins)] ==
            IF i = 0 THEN <<>>
            ELSE Q[i - 1] \o [j \in DOMAIN Found(i).asked |->
                                [fpr |-> admins[i], where |-> Found(i).asked[j]]]
    IN IF bad # {}
       THEN [adminKeys |-> <<>>, err |-> ErrNoKey, asked |-> Q[last]]
       ELSE [adminKeys |-> [i \in DOMAIN admins |-> Found(i).key], err |-> Nil,
             asked |-> Q[last]]

\* verifyBrandNewRoster: the admins are those the roster itself names.
verifyBrandNewRoster(t, roster, signature, localKeys, remoteKeys) ==
    LET got == fetchAdminPublicKeys(t, localKeys, remoteKeys) IN
    IF got.err # Nil THEN got.err
    ELSE VerifyRoster(roster, signature, got.adminKeys)

\* ------------------------------------------------------- remote service
\* Everything the service may answer to a roster request: any document,
\* with a signature by any key over it, or with no signature of it.
RemoteAnswers ==
    { HttpAnswer(r, NoSignature) : r \in Rosters } \cup
    { HttpAnswer(r, Sign(f, r)) : r \in Rosters, f \in FPs }

\* The outcomes a run of teamFetch is checked against: one failure of each
\* kind GetTeamRoster tells apart, and every answer.
SyncFailures ==
    { h \in HttpFailures :
        \/ h.failed
        \/ h.status \in {StatusForbidden, StatusNotFound, StatusServerError}
        \/ h.body = "notjson" }

HttpOutcomes == SyncFailures \cup RemoteAnswers

\* ----------------------------------------------------------------- state
VARIABLES
    store,        \* trusted roster store: directory -> [roster, signature]
    requests,     \* local database of requests to join a team (a sequence)
    pc,           \* position inside teamFetch
    reqList,      \* requestsToJoinTeams, the list the join loop ranges over
    idx,          \* index of the current request or membership
    listErr,      \* err of processRequestsToJoinTeam's function scope
    returnError,  \* returnError of processRequestsToJoinTeam
    sawError,     \* sawError of teamFetch
    exit,         \* what the last teamFetch gave its caller
    memList,      \* myMemberships: the teams loaded from the store
    myTeam,       \* doUpdateTeam's myTeam / the join loop's t
    roster,       \* the roster just downloaded
    signature,    \* the signature just downloaded
    updErr,       \* returnError of doUpdateTeam
    keysErr,      \* err of fetchTeamKeys
    pidx,         \* index of the current person in fetchTeamKeys
    trace,        \* calls made so far for the current request or membership
    failed,       \* history: some item of this run met an error
    downloads,    \* history: new rosters the service has handed out
    firstName,    \* history: name of the first roster trusted per directory
    superseded,   \* history: rosters replaced in the store, per directory
    before,       \* ValidateUpdate's before
    after,        \* ValidateUpdate's after
    me,           \* ValidateUpdate's me
    verr,         \* what ValidateUpdate returned ("none" before the call)
    args,         \* arguments of a function called on its own
    ret           \* what that function returned

syncVars == <<store, requests, pc, reqList, idx, listErr, returnError,
              sawError, exit, memList, myTeam, roster, signature, updErr,
              keysErr, pidx, trace, failed, downloads, firstName,
              superseded>>

editVars == <<before, after, me, verr, args, ret>>

\* No function has been called on its own.
NoCall == [fn |-> "none"]

NoReturn == [called |-> FALSE]

vars == <<syncVars, editVars>>

EmptySlot == [roster |-> NoRoster, signature |-> NoSignature]

InitialRoster ==
    [UUID |-> "u1", Name |-> "Acme",
     People |-> <<[Fingerprint |-> "fpA", IsAdmin |-> TRUE]>>,
     layout |-> "canon"]

\* A request is made either on day 0 or exactly ExpiryDays before today.
RequestTimes == {0, Today - ExpiryDays}

Requests == [TeamUUID : UUIDs, Fingerprint : {MyFpr}, RequestedAt : RequestTimes]

\* The database keeps one request per team, listed in team order.
TeamRank(u) == IF u = "u1" THEN 1 ELSE 2

RequestLists ==
    { s \in UNION { [1..n -> Requests] : n \in 0..MaxRequests } :
        \A i, j \in DOMAIN s :
            i < j => TeamRank(s[i].TeamUUID) < TeamRank(s[j].TeamUUID) }

\* The roster that replaced InitialRoster in an earlier run: a member added.
SecondRoster ==
    [InitialRoster EXCEPT !.People = <<Person("fpA", TRUE), Person("fpB", FALSE)>>]

\* What earlier runs left on disk: I am in team u1, first trusted with
\* InitialRoster, since superseded by SecondRoster; I am not in team u2; the
\* requests to join are still to be settled.
Init ==
    /\ store = [u \in UUIDs |->
                  IF u = "u1"
                  THEN [roster |-> SecondRoster,
                        signature |-> Sign("fpA", SecondRoster)]
                  ELSE EmptySlot]
    /\ superseded = [u \in UUIDs |-> IF u = "u1" THEN {InitialRoster} ELSE {}]
    /\ requests \in RequestLists
    /\ pc = "start"
    /\ reqList = <<>>
    /\ idx = 0
    /\ listErr = Nil
    /\ returnError = Nil
    /\ sawError = FALSE
    /\ exit = "none"
    /\ memList = <<>>
    /\ myTeam = NoTeam
    /\ roster = NoRoster
    /\ signature = NoSignature
    /\ updErr = Nil
    /\ keysErr = Nil
    /\ pidx = 0
    /\ trace = <<>>
    /\ failed = FALSE
    /\ downloads = 0
    /\ firstName = [u \in UUIDs |-> IF u = "u1" THEN "Acme" ELSE ""]
    /\ before = NoTeam
    /\ after = NoTeam
    /\ me = Person("fpA", TRUE)
    /\ verr = "none"
    /\ args = NoCall
    /\ ret = NoReturn

\* RosterSaver.Save: the directory's roster and signature are replaced
\* together.  The history variables follow the store.
Save(dir, r, sg) ==
    /\ store' = [store EXCEPT ![dir] = [roster |-> r, signature |-> sg]]
    /\ firstName' = IF store[dir] = EmptySlot
                    THEN [firstName EXCEPT ![dir] = Load(r, sg).team.Name]
                    ELSE firstName
    /\ superseded' = IF store[dir] # EmptySlot /\ store[dir].roster # r
                     THEN [superseded EXCEPT ![dir] = @ \cup {store[dir].roster}]
                     ELSE superseded

\* db.DeleteRequestToJoinTeam
DeleteRequestToJoinTeam(db, teamUUID, fingerprint) ==
    SelectSeq(db, LAMBDA q : ~(q.TeamUUID = teamUUID /\ q.Fingerprint = fingerprint))

\* time.Now().Sub(request.RequestedAt) > 7 days
Expired(request) == Today - request.RequestedAt > ExpiryDays

\* One entry of the call record: the call, the error it returned and, for a
\* signature check, the key that signed, for a key fetch, the key asked for.
EvBy(call, err, by) == [call |-> call, err |-> err, by |-> by]

Ev(call, err) == EvBy(call, err, "")

\* user.Memberships: one membership per directory of the store whose team
\* lists my key, in directory order; an error when a stored roster cannot be
\* loaded.
DirectoryOrder == <<"u1", "u2">>

Memberships(st) ==
    LET used == SelectSeq(DirectoryOrder, LAMBDA u : st[u] # EmptySlot)
        loaded == [i \in DOMAIN used |->
                     Load(st[used[i]].roster, st[used[i]].signature)]
        mine == SelectSeq([i \in DOMAIN used |-> loaded[i].team],
                          LAMBDA t : \E i \in DOMAIN t.People :
                                        t.People[i].Fingerprint = MyFpr)
    IN IF \E i \in DOMAIN loaded : loaded[i].err # Nil
       THEN [memberships |-> <<>>, err |-> ErrList]
       ELSE [memberships |-> mine, err |-> Nil]

\* ------------------------------------------------- teamFetch: join phase
\* teamFetch up to the first statement of processRequestsToJoinTeam: the
\* requests are read from the local database.
StartPass ==
    /\ pc = "start"
    /\ sawError' = FALSE
    /\ exit' = "none"
    /\ trace' = <<>>
    /\ idx' = 1
    /\ \E ok \in BOOLEAN :
        IF ok
        THEN /\ reqList' = requests
             /\ listErr' = Nil
             /\ returnError' = Nil
             /\ failed' = FALSE
             /\ pc' = "join"
        ELSE /\ reqList' = <<>>
             /\ listErr' = ErrList
             /\ returnError' = ErrList
             /\ failed' = TRUE
             /\ pc' = "join_return"
    /\ UNCHANGED <<store, requests, memList, myTeam, roster, signature, updErr,
                   keysErr, pidx, firstName, superseded>>
    /\ UNCHANGED <<downloads, editVars>>

InJoinLoop == pc = "join" /\ idx <= Len(reqList)

\* `continue`: on to the next request, the loop's locals gone.
NextRequest ==
    /\ pc' = "join"
    /\ idx' = idx + 1
    /\ myTeam' = NoTeam
    /\ roster' = NoRoster
    /\ signature' = NoSignature

\* The request is older than seven days: it is deleted and returnError is
\* assigned the function-scope err.
JoinExpire ==
    /\ InJoinLoop
    /\ Expired(reqList[idx])
    /\ \E dbOk \in BOOLEAN :
        requests' = IF dbOk
                    THEN DeleteRequestToJoinTeam(requests, reqList[idx].TeamUUID,
                                                 reqList[idx].Fingerprint)
                    ELSE requests
    /\ returnError' = listErr
    /\ failed' = TRUE
    /\ trace' = <<Ev("expired", Nil), Ev("delete", Nil)>>
    /\ NextRequest
    /\ UNCHANGED <<store, reqList, listErr, sawError, exit, memList,
                   updErr, keysErr, pidx, firstName, superseded>>
    /\ UNCHANGED <<downloads, editVars>>

\* loadPrivateKeyFromFingerprint fails.
JoinUnlockFail ==
    /\ InJoinLoop
    /\ ~Expired(reqList[idx])
    /\ returnError' = ErrUnlock
    /\ failed' = TRUE
    /\ trace' = <<Ev("unlock", ErrUnlock)>>
    /\ NextRequest
    /\ UNCHANGED <<store, requests, reqList, listErr, sawError, exit,
                   memList, updErr, keysErr, pidx, firstName, superseded>>
    /\ UNCHANGED <<downloads, editVars>>

\* The join loop as it would be if Forbidden were handled like every other
\* error of GetTeamRoster.
JoinFetchForbiddenIsError ==
    /\ InJoinLoop
    /\ ~Expired(reqList[idx])
    /\ \E http \in HttpOutcomes :
        LET got == GetTeamRoster(http) IN
        /\ got.err = Nil => downloads < MaxDownloads
        /\ trace' = <<Ev("unlock", Nil), Ev("fetch", got.err)>>
        /\ IF got.err # Nil
           THEN /\ returnError' = got.err
                /\ failed' = TRUE
                /\ NextRequest
                /\ UNCHANGED downloads
           ELSE /\ roster' = got.roster
                /\ signature' = got.signature
                /\ pc' = "join_load"
                /\ downloads' = downloads + 1
                /\ UNCHANGED <<returnError, failed, idx, myTeam>>
    /\ UNCHANGED <<store, requests, reqList, listErr, sawError, exit,
                   memList, updErr, keysErr, pidx, firstName, superseded>>
    /\ UNCHANGED editVars

\* The join loop as it would be if a failed download also dropped the
\* request from the database.
JoinFetchDropsOnError ==
    /\ InJoinLoop
    /\ ~Expired(reqList[idx])
    /\ \E http \in HttpOutcomes :
        LET got == GetTeamRoster(http) IN
        /\ got.err = Nil => downloads < MaxDownloads
        /\ trace' = <<Ev("unlock", Nil), Ev("fetch", got.err)>>
        /\ IF got.err = ErrForbidden
           THEN /\ NextRequest
                /\ UNCHANGED <<returnError, failed, downloads, requests>>
           ELSE IF got.err # Nil
                THEN /\ returnError' = got.err
                     /\ failed' = TRUE
                     /\ requests' = DeleteRequestToJoinTeam(requests,
                                        reqList[idx].TeamUUID,
                                        reqList[idx].Fingerprint)
                     /\ NextRequest
                     /\ UNCHANGED downloads
                ELSE /\ roster' = got.roster
                     /\ signature' = got.signature
                     /\ pc' = "join_load"
                     /\ downloads' = downloads + 1
                     /\ UNCHANGED <<returnError, failed, idx, myTeam, requests>>
    /\ UNCHANGED <<store, reqList, listErr, sawError, exit,
                   memList, updErr, keysErr, pidx, firstName, superseded>>
    /\ UNCHANGED editVars

\* The key unlocks and the roster is requested with it.
JoinFetch ==
    /\ InJoinLoop
    /\ ~Expired(reqList[idx])
    /\ \E http \in HttpOutcomes :
        LET got == GetTeamRoster(http) IN
        /\ got.err = Nil => downloads < MaxDownloads
        /\ trace' = <<Ev("unlock", Nil), Ev("fetch", got.err)>>
        /\ IF got.err = ErrForbidden
           THEN /\ NextRequest
                /\ UNCHANGED <<returnError, failed, downloads>>
           ELSE IF got.err # Nil
                THEN /\ returnError' = got.err
                     /\ failed' = TRUE
                     /\ NextRequest
                     /\ UNCHANGED downloads
                ELSE /\ roster' = got.roster
                     /\ signature' = got.signature
                     /\ pc' = "join_load"
                     /\ downloads' = downloads + 1
                     /\ UNCHANGED <<returnError, failed, idx, myTeam>>
    /\ UNCHANGED <<store, requests, reqList, listErr, sawError, exit,
                   memList, updErr, keysErr, pidx, firstName, superseded>>
    /\ UNCHANGED editVars

\* team.Load, then verifyBrandNewRoster.
JoinLoadVerify ==
    /\ pc = "join_load"
    /\ LET l == Load(roster, signature) IN
       IF l.err # Nil
       THEN /\ returnError' = l.err
            /\ failed' = TRUE
            /\ trace' = Append(trace, Ev("load", l.err))
            /\ NextRequest
       ELSE \E localKeys, remoteKeys \in SUBSET FPs :
            LET v == verifyBrandNewRoster(l.team, roster, signature, localKeys,
                                          remoteKeys) IN
            /\ trace' = trace \o <<Ev("load", Nil),
                                    EvBy("verify", v, signature.signer)>>
            /\ IF v # Nil
               THEN /\ returnError' = v
                    /\ failed' = TRUE
                    /\ NextRequest
               ELSE /\ myTeam' = l.team
                    /\ pc' = "join_save"
                    /\ UNCHANGED <<returnError, failed, idx, roster, signature>>
    /\ UNCHANGED <<store, requests, reqList, listErr, sawError, exit,
                   memList, updErr, keysErr, pidx, firstName, superseded>>
    /\ UNCHANGED <<downloads, editVars>>

\* The join loop as it would be if a failed Save did not end the turn.
JoinSaveUnchecked ==
    /\ pc = "join_save"
    /\ \E dirOk, saveOk \in BOOLEAN :
        IF ~dirOk
        THEN /\ returnError' = ErrDirectory
             /\ failed' = TRUE
             /\ trace' = Append(trace, Ev("directory", ErrDirectory))
             /\ NextRequest
             /\ UNCHANGED <<store, firstName, superseded>>
        ELSE IF ~saveOk
             THEN /\ returnError' = ErrSave
                  /\ failed' = TRUE
                  /\ trace' = Append(trace, Ev("save", ErrSave))
                  /\ pc' = "join_delete"
                  /\ UNCHANGED <<store, firstName, superseded, idx, myTeam,
                                 roster, signature>>
             ELSE /\ Save(Directory(myTeam), roster, signature)
                  /\ trace' = Append(trace, Ev("save", Nil))
                  /\ pc' = "join_delete"
                  /\ UNCHANGED <<returnError, failed, idx, myTeam, roster,
                                 signature>>
    /\ UNCHANGED <<requests, reqList, listErr, sawError, exit, memList,
                   updErr, keysErr, pidx>>
    /\ UNCHANGED <<downloads, editVars>>

\* team.Directory, then RosterSaver.Save.
JoinSave ==
    /\ pc = "join_save"
    /\ \E dirOk, saveOk \in BOOLEAN :
        IF ~dirOk
        THEN /\ returnError' = ErrDirectory
             /\ failed' = TRUE
             /\ trace' = Append(trace, Ev("directory", ErrDirectory))
             /\ NextRequest
             /\ UNCHANGED <<store, firstName, superseded>>
        ELSE IF ~saveOk
             THEN /\ returnError' = ErrSave
                  /\ failed' = TRUE
                  /\ trace' = Append(trace, Ev("save", ErrSave))
                  /\ NextRequest
                  /\ UNCHANGED <<store, firstName, superseded>>
             ELSE /\ Save(Directory(myTeam), roster, signature)
                  /\ trace' = Append(trace, Ev("save", Nil))
                  /\ pc' = "join_delete"
                  /\ UNCHANGED <<returnError, failed, idx, myTeam, roster,
                                 signature>>
    /\ UNCHANGED <<requests, reqList, listErr, sawError, exit, memList,
                   updErr, keysErr, pidx>>
    /\ UNCHANGED <<downloads, editVars>>

\* The approved request is deleted from the local database.
JoinDelete ==
    /\ pc = "join_delete"
    /\ \E dbOk \in BOOLEAN :
        IF dbOk
        THEN /\ requests' = DeleteRequestToJoinTeam(requests,
                                reqList[idx].TeamUUID, reqList[idx].Fingerprint)
             /\ trace' = Append(trace, Ev("delete", Nil))
             /\ UNCHANGED <<returnError, failed>>
        ELSE /\ returnError' = ErrDelete
             /\ failed' = TRUE
             /\ trace' = Append(trace, Ev("delete", ErrDelete))
             /\ UNCHANGED requests
    /\ NextRequest
    /\ UNCHANGED <<store, reqList, listErr, sawError, exit, memList,
                   updErr, keysErr, pidx, firstName, superseded>>
    /\ UNCHANGED <<downloads, editVars>>

\* processRequestsToJoinTeam returns; teamFetch sets sawError and lists the
\* memberships, panicking when that fails.
JoinReturn ==
    /\ \/ pc = "join_return"
       \/ pc = "join" /\ idx > Len(reqList)
    /\ sawError' = (returnError # Nil)
    /\ \E ioOk \in BOOLEAN :
        LET m == Memberships(store) IN
        IF ioOk /\ m.err = Nil
        THEN /\ memList' = m.memberships
             /\ pc' = "update"
             /\ idx' = 1
             /\ UNCHANGED exit
        ELSE /\ memList' = <<>>
             /\ pc' = "panicked"
             /\ exit' = "panic"
             /\ idx' = 0
    /\ trace' = <<>>
    /\ reqList' = <<>>
    /\ listErr' = Nil
    /\ returnError' = Nil
    /\ UNCHANGED <<store, requests, myTeam, roster, signature, updErr,
                   keysErr, pidx, failed, firstName, superseded>>
    /\ UNCHANGED <<downloads, editVars>>

\* ------------------------------------------- teamFetch: membership phase
InUpdateLoop == pc = "update" /\ idx <= Len(memList)

\* doUpdateTeam goes on to fetchTeamKeys with the team myTeam points to.
\* Of the download the roster stays on record only when it equalled the
\* trusted one or failed the signature check.
ToFetchTeamKeys(t, err) ==
    /\ myTeam' = t
    /\ updErr' = err
    /\ failed' = (failed \/ err # Nil)
    /\ keysErr' = Nil
    /\ pidx' = 1
    /\ pc' = "keys"
    /\ signature' = NoSignature

\* doUpdateTeam: the private key does not unlock.
UpdateUnlockFail ==
    /\ InUpdateLoop
    /\ trace' = <<Ev("unlock", ErrUnlock)>>
    /\ ToFetchTeamKeys(memList[idx], ErrUnlock)
    /\ roster' = NoRoster
    /\ UNCHANGED <<store, requests, reqList, idx, listErr, returnError,
                   sawError, exit, memList, firstName, superseded>>
    /\ UNCHANGED <<downloads, editVars>>

\* fetchAndUpdateRoster as it would be without the comparison with the
\* roster the team was loaded from.
UpdateFetchNoCompare ==
    /\ InUpdateLoop
    /\ \E http \in HttpOutcomes :
        LET got == GetTeamRoster(http)
            t == memList[idx]
        IN IF got.err # Nil
           THEN /\ trace' = <<Ev("unlock", Nil), Ev("fetch", got.err)>>
                /\ ToFetchTeamKeys(t, ErrDownload)
                /\ roster' = NoRoster
                /\ UNCHANGED downloads
           ELSE /\ downloads < MaxDownloads
                /\ downloads' = downloads + 1
                /\ trace' = <<Ev("unlock", Nil), Ev("fetch", Nil)>>
                /\ myTeam' = t
                /\ roster' = got.roster
                /\ signature' = got.signature
                /\ pc' = "upd_verify"
                /\ UNCHANGED <<updErr, keysErr, pidx, failed>>
    /\ UNCHANGED <<store, requests, reqList, idx, listErr, returnError,
                   sawError, exit, memList, firstName, superseded>>
    /\ UNCHANGED editVars

\* fetchAndUpdateRoster, first part: download, and compare with the roster
\* the team was loaded from.
UpdateFetch ==
    /\ InUpdateLoop
    /\ \E http \in HttpOutcomes :
        LET got == GetTeamRoster(http)
            t == memList[idx]
        IN IF got.err # Nil
           THEN /\ trace' = <<Ev("unlock", Nil), Ev("fetch", got.err)>>
                /\ ToFetchTeamKeys(t, ErrDownload)
                /\ roster' = NoRoster
                /\ UNCHANGED downloads
           ELSE IF TeamRoster(t) = got.roster
                THEN /\ trace' = <<Ev("unlock", Nil), Ev("fetch", Nil)>>
                     /\ ToFetchTeamKeys(t, Nil)
                     /\ roster' = got.roster
                     /\ UNCHANGED downloads
                ELSE /\ downloads < MaxDownloads
                     /\ downloads' = downloads + 1
                     /\ trace' = <<Ev("unlock", Nil), Ev("fetch", Nil)>>
                     /\ myTeam' = t
                     /\ roster' = got.roster
                     /\ signature' = got.signature
                     /\ pc' = "upd_verify"
                     /\ UNCHANGED <<updErr, keysErr, pidx, failed>>
    /\ UNCHANGED <<store, requests, reqList, idx, listErr, returnError,
                   sawError, exit, memList, firstName, superseded>>
    /\ UNCHANGED editVars

\* fetchAndUpdateRoster as it would be if a failed signature check did not
\* end it.
UpdateVerifyUnchecked ==
    /\ pc = "upd_verify"
    /\ \E localKeys, remoteKeys \in SUBSET FPs :
        LET got == fetchAdminPublicKeys(myTeam, localKeys, remoteKeys) IN
        IF got.err # Nil
        THEN /\ trace' = Append(trace, Ev("adminkeys", got.err))
             /\ ToFetchTeamKeys(myTeam, ErrAdminKeys)
             /\ roster' = NoRoster
        ELSE LET v == VerifyRoster(roster, signature, got.adminKeys) IN
             /\ trace' = trace \o <<Ev("adminkeys", Nil),
                                     EvBy("verify", v, signature.signer)>>
             /\ pc' = "upd_save"
             /\ UNCHANGED <<myTeam, roster, signature, updErr, keysErr,
                            pidx, failed>>
    /\ UNCHANGED <<store, requests, reqList, idx, listErr, returnError,
                   sawError, exit, memList, firstName, superseded>>
    /\ UNCHANGED <<downloads, editVars>>

\* fetchAndUpdateRoster as it would be if it took the admins from the roster
\* just downloaded.
UpdateVerifyNewAdmins ==
    /\ pc = "upd_verify"
    /\ \E localKeys, remoteKeys \in SUBSET FPs :
        LET got == fetchAdminPublicKeys(Load(roster, signature).team,
                                        localKeys, remoteKeys) IN
        IF got.err # Nil
        THEN /\ trace' = Append(trace, Ev("adminkeys", got.err))
             /\ ToFetchTeamKeys(myTeam, ErrAdminKeys)
             /\ roster' = NoRoster
        ELSE LET v == VerifyRoster(roster, signature, got.adminKeys) IN
             /\ trace' = trace \o <<Ev("adminkeys", Nil),
                                     EvBy("verify", v, signature.signer)>>
             /\ IF v # Nil
                THEN /\ ToFetchTeamKeys(myTeam, ErrValidate)
                     /\ roster' = roster
                ELSE /\ pc' = "upd_save"
                     /\ UNCHANGED <<myTeam, roster, signature, updErr, keysErr,
                                    pidx, failed>>
    /\ UNCHANGED <<store, requests, reqList, idx, listErr, returnError,
                   sawError, exit, memList, firstName, superseded>>
    /\ UNCHANGED <<downloads, editVars>>

\* doUpdateTeam as it would be if it moved myTeam to the downloaded roster
\* even when the signature check fails.
UpdateVerifyKeepsRejected ==
    /\ pc = "upd_verify"
    /\ \E localKeys, remoteKeys \in SUBSET FPs :
        LET got == fetchAdminPublicKeys(myTeam, localKeys, remoteKeys) IN
        IF got.err # Nil
        THEN /\ trace' = Append(trace, Ev("adminkeys", got.err))
             /\ ToFetchTeamKeys(myTeam, ErrAdminKeys)
             /\ roster' = NoRoster
        ELSE LET v == VerifyRoster(roster, signature, got.adminKeys) IN
             /\ trace' = trace \o <<Ev("adminkeys", Nil),
                                     EvBy("verify", v, signature.signer)>>
             /\ IF v # Nil
                THEN /\ ToFetchTeamKeys(Load(roster, signature).team, ErrValidate)
                     /\ roster' = roster
                ELSE /\ pc' = "upd_save"
                     /\ UNCHANGED <<myTeam, roster, signature, updErr, keysErr,
                                    pidx, failed>>
    /\ UNCHANGED <<store, requests, reqList, idx, listErr, returnError,
                   sawError, exit, memList, firstName, superseded>>
    /\ UNCHANGED <<downloads, editVars>>

\* fetchAndUpdateRoster, second part: the admin keys of t, the team passed
\* in, and the signature check against them.
UpdateVerify ==
    /\ pc = "upd_verify"
    /\ \E localKeys, remoteKeys \in SUBSET FPs :
        LET got == fetchAdminPublicKeys(myTeam, localKeys, remoteKeys) IN
        IF got.err # Nil
        THEN /\ trace' = Append(trace, Ev("adminkeys", got.err))
             /\ ToFetchTeamKeys(myTeam, ErrAdminKeys)
             /\ roster' = NoRoster
        ELSE LET v == VerifyRoster(roster, signature, got.adminKeys) IN
             /\ trace' = trace \o <<Ev("adminkeys", Nil),
                                     EvBy("verify", v, signature.signer)>>
             /\ IF v # Nil
                THEN /\ ToFetchTeamKeys(myTeam, ErrValidate)
                     /\ roster' = roster
                ELSE /\ pc' = "upd_save"
                     /\ UNCHANGED <<myTeam, roster, signature, updErr, keysErr,
                                    pidx, failed>>
    /\ UNCHANGED <<store, requests, reqList, idx, listErr, returnError,
                   sawError, exit, memList, firstName, superseded>>
    /\ UNCHANGED <<downloads, editVars>>

\* fetchAndUpdateRoster, last part: team.Directory, RosterSaver.Save and
\* team.Load of what was saved.
UpdateSave ==
    /\ pc = "upd_save"
    /\ \E dirOk, saveOk \in BOOLEAN :
        IF ~dirOk
        THEN /\ trace' = Append(trace, Ev("directory", ErrDirectory))
             /\ ToFetchTeamKeys(myTeam, ErrDirectory)
             /\ roster' = NoRoster
             /\ UNCHANGED <<store, firstName, superseded>>
        ELSE IF ~saveOk
             THEN /\ trace' = Append(trace, Ev("save", ErrSave))
                  /\ ToFetchTeamKeys(myTeam, ErrSave)
                  /\ roster' = NoRoster
                  /\ UNCHANGED <<store, firstName, superseded>>
             ELSE LET l == Load(roster, signature) IN
                  /\ Save(Directory(myTeam), roster, signature)
                  /\ trace' = trace \o <<Ev("save", Nil), Ev("load", l.err)>>
                  /\ roster' = NoRoster
                  /\ IF l.err # Nil
                     THEN ToFetchTeamKeys(myTeam, l.err)
                     ELSE ToFetchTeamKeys(l.team, Nil)
    /\ UNCHANGED <<requests, reqList, idx, listErr, returnError,
                   sawError, exit, memList>>
    /\ UNCHANGED <<downloads, editVars>>

\* getAndImportKeyToGpg: what fetching and importing one key gives.
KeyOutcomes == {Nil, ErrNotFoundKey}

\* fetchTeamKeys as it would be if it returned at the first key that fails.
FetchKeyStopsOnError ==
    /\ pc = "keys"
    /\ pidx <= Len(myTeam.People)
    /\ \E outcome \in KeyOutcomes :
        /\ keysErr' = outcome
        /\ failed' = (failed \/ outcome # Nil)
        /\ trace' = Append(trace, EvBy("key", outcome,
                                       myTeam.People[pidx].Fingerprint))
        /\ pidx' = IF outcome # Nil THEN Len(myTeam.People) + 1 ELSE pidx + 1
    /\ UNCHANGED <<store, requests, pc, reqList, idx, listErr,
                   returnError, sawError, exit, memList, myTeam, roster,
                   signature, updErr, firstName, superseded>>
    /\ UNCHANGED <<downloads, editVars>>

\* fetchTeamKeys, one turn of its loop: err is assigned the outcome for
\* this person.
FetchKey ==
    /\ pc = "keys"
    /\ pidx <= Len(myTeam.People)
    /\ \E outcome \in KeyOutcomes :
        /\ keysErr' = outcome
        /\ failed' = (failed \/ outcome # Nil)
        /\ trace' = Append(trace, EvBy("key", outcome,
                                       myTeam.People[pidx].Fingerprint))
    /\ pidx' = pidx + 1
    /\ UNCHANGED <<store, requests, pc, reqList, idx, listErr,
                   returnError, sawError, exit, memList, myTeam, roster,
                   signature, updErr, firstName, superseded>>
    /\ UNCHANGED <<downloads, editVars>>

\* What doUpdateTeam returns once fetchTeamKeys has returned: the error of
\* fetchTeamKeys if there is one, else the error of the update.
doUpdateTeamResult == IF keysErr # Nil THEN keysErr ELSE updErr

\* fetchTeamKeys returns err, doUpdateTeam returns, and teamFetch notes
\* whether it returned an error.
UpdateReturn ==
    /\ pc = "keys"
    /\ pidx > Len(myTeam.People)
    /\ sawError' = (sawError \/ doUpdateTeamResult # Nil)
    /\ pc' = "update"
    /\ idx' = idx + 1
    /\ myTeam' = NoTeam
    /\ roster' = NoRoster
    /\ updErr' = Nil
    /\ keysErr' = Nil
    /\ pidx' = 0
    /\ trace' = <<>>
    /\ UNCHANGED <<store, requests, reqList, listErr, returnError, exit,
                   memList, signature, failed, firstName, superseded>>
    /\ UNCHANGED <<downloads, editVars>>

\* teamFetch returns its exit code.
FinishPass ==
    /\ pc = "update"
    /\ idx > Len(memList)
    /\ exit' = IF sawError THEN "1" ELSE "0"
    /\ pc' = "done"
    /\ idx' = 0
    /\ memList' = <<>>
    /\ sawError' = FALSE
    /\ UNCHANGED <<store, requests, reqList, listErr, returnError,
                   myTeam, roster, signature, updErr, keysErr, pidx, trace,
                   failed, firstName, superseded>>
    /\ UNCHANGED <<downloads, editVars>>

Next ==
    \/ StartPass
    \/ JoinExpire
    \/ JoinUnlockFail
    \/ JoinFetch
    \/ JoinLoadVerify
    \/ JoinSave
    \/ JoinDelete
    \/ JoinReturn
    \/ UpdateUnlockFail
    \/ UpdateFetch
    \/ UpdateVerify
    \/ UpdateSave
    \/ FetchKey
    \/ UpdateReturn
    \/ FinishPass

Spec == Init /\ [][Next]_vars

\* ------------------------------------- team.ValidateUpdate on its own
\* Every people list of at most MaxPeople persons, duplicates and lists
\* without an admin included.
ValPeopleLists == UNION { [1..n -> Persons] : n \in 0..MaxPeople }

ValTeams ==
    { [UUID |-> u, Name |-> n, People |-> p, roster |-> NoRoster,
       signature |-> NoSignature] :
        u \in UUIDs, n \in Names, p \in ValPeopleLists }

InitValidate ==
    /\ store = [u \in UUIDs |-> EmptySlot]
    /\ superseded = [u \in UUIDs |-> {}]
    /\ requests = <<>>
    /\ pc = "start"
    /\ reqList = <<>>
    /\ idx = 0
    /\ listErr = Nil
    /\ returnError = Nil
    /\ sawError = FALSE
    /\ exit = "none"
    /\ memList = <<>>
    /\ myTeam = NoTeam
    /\ roster = NoRoster
    /\ signature = NoSignature
    /\ updErr = Nil
    /\ keysErr = Nil
    /\ pidx = 0
    /\ trace = <<>>
    /\ failed = FALSE
    /\ downloads = 0
    /\ firstName = [u \in UUIDs |-> ""]
    /\ before \in ValTeams
    /\ after \in ValTeams
    /\ me \in Persons
    /\ verr = "none"
    /\ args = NoCall
    /\ ret = NoReturn

CallValidateUpdate ==
    /\ verr = "none"
    /\ verr' = ValidateUpdate(before, after, me)
    /\ UNCHANGED <<syncVars, before, after, me, args, ret>>

SpecValidate == InitValidate /\ [][CallValidateUpdate]_vars

\* ------------------------------------ fetchAdminPublicKeys on its own
\* teamFetch is not running.
NoRun ==
    /\ store = [u \in UUIDs |-> EmptySlot]
    /\ superseded = [u \in UUIDs |-> {}]
    /\ requests = <<>>
    /\ pc = "start"
    /\ reqList = <<>>
    /\ idx = 0
    /\ listErr = Nil
    /\ returnError = Nil
    /\ sawError = FALSE
    /\ exit = "none"
    /\ memList = <<>>
    /\ myTeam = NoTeam
    /\ roster = NoRoster
    /\ signature = NoSignature
    /\ updErr = Nil
    /\ keysErr = Nil
    /\ pidx = 0
    /\ trace = <<>>
    /\ failed = FALSE
    /\ downloads = 0
    /\ firstName = [u \in UUIDs |-> ""]
    /\ before = NoTeam
    /\ after = NoTeam
    /\ me = Person("fpA", TRUE)
    /\ verr = "none"

\* Any team of at most MaxPeople persons, any local keyring, any set of keys
\* the key server has.
InitKeys ==
    /\ NoRun
    /\ args \in [fn : {"fetchAdminPublicKeys"}, t : ValTeams,
                  localKeys : SUBSET FPs, remoteKeys : SUBSET FPs]
    /\ ret = NoReturn

CallFetchAdminPublicKeys ==
    /\ ~ret.called
    /\ args.fn = "fetchAdminPublicKeys"
    /\ ret' = [called |-> TRUE,
               out |-> fetchAdminPublicKeys(args.t, args.localKeys,
                                            args.remoteKeys)]
    /\ UNCHANGED <<syncVars, before, after, me, verr, args>>

SpecKeys == InitKeys /\ [][CallFetchAdminPublicKeys]_vars

\* ------------------------------------------- GetTeamRoster on its own
\* Every round trip: no response at all, or a response with any status and
\* a body that is a roster answer, broken JSON, not JSON, or missing.
HttpResponses ==
    { h \in HttpFailures : h.failed }
    \cup { [a EXCEPT !.status = st] : a \in RemoteAnswers, st \in HttpStatuses }
    \cup { [failed |-> FALSE, status |-> st, body |-> b,
            roster |-> NoRoster, signature |-> NoSignature] :
              st \in HttpStatuses, b \in {"badjson", "notjson", "none"} }

InitApi ==
    /\ NoRun
    /\ args \in [fn : {"GetTeamRoster"}, http : HttpResponses]
    /\ ret = NoReturn

CallGetTeamRoster ==
    /\ ~ret.called
    /\ args.fn = "GetTeamRoster"
    /\ ret' = [called |-> TRUE, out |-> GetTeamRoster(args.http)]
    /\ UNCHANGED <<syncVars, before, after, me, verr, args>>

SpecApi == InitApi /\ [][CallGetTeamRoster]_vars

\* ------------------------------------------------- doEditTeam on its own
ErrTempfile == "Error writing team roster to temporary file"
ErrEditor == "failed to open editor for text file"
ErrReadFile == "Error reading temp file"
ErrUserDeclinedToSign == "user declined to sign"
ErrUpload == "Failed to sign and upload roster"

\* What promptAndSignAndUploadRoster gives its caller.
UploadOutcomes == {Nil, ErrUserDeclinedToSign, ErrUpload}

\* The teams doEditTeam is called for: loaded from a roster of the store.
EditTeams == { Load(r, Sign(f, r)).team : r \in WellFormedRosters, f \in FPs }

\* doEditTeam before its first step: nothing called, no exit code.
EditStart == [called |-> FALSE, at |-> "roster", newRoster |-> NoRoster,
              calls |-> <<>>, exit |-> "none"]

InitEdit ==
    /\ NoRun
    /\ args \in [fn : {"doEditTeam"}, myTeam : EditTeams, me : Persons]
    /\ ret = EditStart

\* The roster goes to a temporary file, the editor runs on it and the file
\* is read back: newRoster is whatever the user left in it.
EditRoster ==
    /\ args.fn = "doEditTeam"
    /\ ret.at = "roster"
    /\ \/ /\ ret' = [ret EXCEPT !.called = TRUE, !.at = "done", !.exit = "1",
                               !.calls = <<Ev("writeRosterToTempfile", ErrTempfile)>>]
       \/ /\ ret' = [ret EXCEPT !.called = TRUE, !.at = "done", !.exit = "1",
                               !.calls = <<Ev("writeRosterToTempfile", Nil),
                                           Ev("runEditor", ErrEditor)>>]
       \/ /\ ret' = [ret EXCEPT !.called = TRUE, !.at = "done", !.exit = "1",
                               !.calls = <<Ev("writeRosterToTempfile", Nil),
                                           Ev("runEditor", Nil),
                                           Ev("ReadFile", ErrReadFile)>>]
       \/ \E edited \in Rosters :
             ret' = [ret EXCEPT !.called = TRUE, !.at = "load",
                                !.newRoster = edited,
                                !.calls = <<Ev("writeRosterToTempfile", Nil),
                                            Ev("runEditor", Nil),
                                            Ev("ReadFile", Nil)>>]
    /\ UNCHANGED <<syncVars, before, after, me, verr, args>>

\* team.Load(string(newRoster), ""): the edited roster, with no signature.
EditLoad ==
    /\ args.fn = "doEditTeam"
    /\ ret.at = "load"
    /\ LET l == Load(ret.newRoster, NoSignature) IN
         /\ after' = l.team
         /\ ret' = [ret EXCEPT !.calls = @ \o <<Ev("Load", l.err)>>,
                               !.at = IF l.err # Nil THEN "done" ELSE "validate",
                               !.exit = IF l.err # Nil THEN "1" ELSE "none"]
    /\ UNCHANGED <<syncVars, before, me, verr, args>>

\* doEditTeam as it would be if the edited roster went to
\* promptAndSignAndUploadRoster without team.ValidateUpdate.
EditUploadUnvalidated ==
    /\ args.fn = "doEditTeam"
    /\ ret.at = "validate"
    /\ \E up \in UploadOutcomes :
         ret' = [ret EXCEPT
                   !.calls = @ \o <<Ev("promptAndSignAndUploadRoster", up)>>,
                   !.at = "done",
                   !.exit = IF up # Nil THEN "1" ELSE "0"]
    /\ UNCHANGED <<syncVars, before, after, me, verr, args>>

\* team.ValidateUpdate of the edited team against the current one, then,
\* when it gave no error, promptAndSignAndUploadRoster and the exit code.
EditValidateAndUpload ==
    /\ args.fn = "doEditTeam"
    /\ ret.at = "validate"
    /\ verr' = ValidateUpdate(args.myTeam, after, args.me)
    /\ IF verr' # Nil
       THEN ret' = [ret EXCEPT !.calls = @ \o <<Ev("ValidateUpdate", verr')>>,
                               !.at = "done", !.exit = "1"]
       ELSE \E up \in UploadOutcomes :
              ret' = [ret EXCEPT
                        !.calls = @ \o <<Ev("ValidateUpdate", Nil),
                                         Ev("promptAndSignAndUploadRoster", up)>>,
                        !.at = "done",
                        !.exit = IF up # Nil THEN "1" ELSE "0"]
    /\ UNCHANGED <<syncVars, before, after, me, args>>

NextEdit == EditRoster \/ EditLoad \/ EditValidateAndUpload

SpecEdit == InitEdit /\ [][NextEdit]_vars

\* ----------------------------------- GetPublicKeyByFingerprint on its own
ErrPublicKeyNotFound == "Public key not found"
ErrNewRequest == "BaseURL must have a trailing slash"
ErrMissingBody == "got http status, but with missing body"
ErrReadBody == "error reading response body"
ErrEmptyBody == "got http status, but with empty body"
ErrLoadArmored == "failed to load armored key"
ErrWrongKey == "requested key but got back another"

\* A nil *pgpkey.PgpKey, and the key with a given fingerprint.
NoKey == [Fingerprint |-> ""]

PgpKey(f) == [Fingerprint |-> f]

\* The bodies a response can carry: one that cannot be read, an empty one,
\* text that is no armored key, and the armored key of a fingerprint.  The
\* HTTP client never gives a response without a body ("missing").
KeyBodies ==
    {[kind |-> k, of |-> ""] : k \in {"unreadable", "empty", "garbage"}}
    \cup {[kind |-> "armored", of |-> f] : f \in FPs}

\* pgpkey.LoadFromArmoredPublicKey: the key an armored text holds.
LoadFromArmoredPublicKey(body) ==
    IF body.kind = "armored"
    THEN [key |-> PgpKey(body.of), err |-> Nil]
    ELSE [key |-> NoKey, err |-> ErrLoadArmored]

\* What c.client.Do gives for the key request: a transport failure, or a
\* response with a status and a body.
KeyResponses ==
    {[failed |-> TRUE, status |-> NoResponse, body |-> [kind |-> "missing", of |-> ""]]}
    \cup [failed : {FALSE}, status : HttpStatuses, body : KeyBodies]

\* GetPublicKeyByFingerprint as it would be if the key of the response were
\* returned without comparing its fingerprint with the one asked for.
GetPublicKeyByFingerprintUncompared(fingerprint, requestErr, http) ==
    IF requestErr # Nil THEN [key |-> NoKey, err |-> requestErr]
    ELSE IF http.failed THEN [key |-> NoKey, err |-> ErrTransport]
    ELSE IF ~isSuccess(http.status)
         THEN IF http.status = StatusNotFound
              THEN [key |-> NoKey, err |-> ErrPublicKeyNotFound]
              ELSE [key |-> NoKey, err |-> makeErrorForAPIResponse(http.status)]
    ELSE IF http.body.kind = "missing" THEN [key |-> NoKey, err |-> ErrMissingBody]
    ELSE IF http.body.kind = "unreadable" THEN [key |-> NoKey, err |-> ErrReadBody]
    ELSE IF http.body.kind = "empty" THEN [key |-> NoKey, err |-> ErrEmptyBody]
    ELSE LET retrieved == LoadFromArmoredPublicKey(http.body) IN
         IF retrieved.err # Nil THEN [key |-> NoKey, err |-> ErrLoadArmored]
         ELSE [key |-> retrieved.key, err |-> Nil]

\* Client.GetPublicKeyByFingerprint: requestErr is what c.newRequest gives,
\* http what c.client.Do gives.
GetPublicKeyByFingerprint(fingerprint, requestErr, http) ==
    IF requestErr # Nil THEN [key |-> NoKey, err |-> requestErr]
    ELSE IF http.failed THEN [key |-> NoKey, err |-> ErrTransport]
    ELSE IF ~isSuccess(http.status)
         THEN IF http.status = StatusNotFound
              THEN [key |-> NoKey, err |-> ErrPublicKeyNotFound]
              ELSE [key |-> NoKey, err |-> makeErrorForAPIResponse(http.status)]
    ELSE IF http.body.kind = "missing" THEN [key |-> NoKey, err |-> ErrMissingBody]
    ELSE IF http.body.kind = "unreadable" THEN [key |-> NoKey, err |-> ErrReadBody]
    ELSE IF http.body.kind = "empty" THEN [key |-> NoKey, err |-> ErrEmptyBody]
    ELSE LET retrieved == LoadFromArmoredPublicKey(http.body) IN
         IF retrieved.err # Nil THEN [key |-> NoKey, err |-> ErrLoadArmored]
         ELSE IF retrieved.key.Fingerprint # fingerprint
              THEN [key |-> NoKey, err |-> ErrWrongKey]
              ELSE [key |-> retrieved.key, err |-> Nil]

InitKeyByFingerprint ==
    /\ NoRun
    /\ args \in [fn : {"GetPublicKeyByFingerprint"}, fingerprint : FPs,
                  requestErr : {Nil, ErrNewRequest}, http : KeyResponses]
    /\ ret = NoReturn

CallGetPublicKeyByFingerprint ==
    /\ ~ret.called
    /\ args.fn = "GetPublicKeyByFingerprint"
    /\ ret' = [called |-> TRUE,
               out |-> GetPublicKeyByFingerprint(args.fingerprint,
                                                 args.requestErr, args.http)]
    /\ UNCHANGED <<syncVars, before, after, me, verr, args>>

SpecKeyByFingerprint == InitKeyByFingerprint /\ [][CallGetPublicKeyByFingerprint]_vars

\* ------------------------------------------- RequestToJoinTeam on its own
ErrAlreadyRequested == "already got request to join team"

\* Client.do called with nil responseData: nothing is decoded, so the
\* response is nil (NoResponse) only when the transport failed.
doWithoutData(http) ==
    IF http.failed
    THEN [response |-> NoResponse, err |-> ErrTransport]
    ELSE IF isSuccess(http.status)
         THEN [response |-> http.status, err |-> Nil]
         ELSE [response |-> http.status,
               err |-> makeErrorForAPIResponse(http.status)]

\* Client.RequestToJoinTeam: the error it returns, or the run-time panic of
\* reading response.StatusCode through a nil response.
RequestToJoinTeam(requestErr, http) ==
    IF requestErr # Nil THEN [err |-> requestErr, panicked |-> FALSE]
    ELSE LET r == doWithoutData(http) IN
         IF r.err # Nil
         THEN IF r.response = NoResponse
              THEN [err |-> "none", panicked |-> TRUE]
              ELSE IF r.response = StatusConflict
                   THEN [err |-> ErrAlreadyRequested, panicked |-> FALSE]
                   ELSE [err |-> r.err, panicked |-> FALSE]
         ELSE [err |-> Nil, panicked |-> FALSE]

InitRequestToJoin ==
    /\ NoRun
    /\ args \in [fn : {"RequestToJoinTeam"}, requestErr : {Nil, ErrNewRequest},
                  http : HttpResponses]
    /\ ret = NoReturn

CallRequestToJoinTeam ==
    /\ ~ret.called
    /\ args.fn = "RequestToJoinTeam"
    /\ ret' = [called |-> TRUE,
               out |-> RequestToJoinTeam(args.requestErr, args.http)]
    /\ UNCHANGED <<syncVars, before, after, me, verr, args>>

SpecRequestToJoin == InitRequestToJoin /\ [][CallRequestToJoinTeam]_vars

\* ================================================================ claims
\* The membership phase: doUpdateTeam and all it calls.
InMembershipPhase == pc \in {"update", "upd_verify", "upd_save", "keys"}

\* The team the store holds for a directory.
Trusted(d) == Load(store[d].roster, store[d].signature).team

\* C1: in fetchAndUpdateRoster the trusted store is written only by the Save
\* that follows a successful VerifyRoster of the downloaded roster and
\* signature against the admin keys, and it then holds exactly that roster
\* and signature; when the download, the admin keys or the signature check
\* fails, the store stays as it was and the team's directory still holds the
\* roster and signature the team was loaded from.
C1_SaveOnlyAfterVerify ==
    [][InMembershipPhase =>
        /\ store' # store =>
              /\ pc = "upd_save"
              /\ trace[Len(trace)] = EvBy("verify", Nil, signature.signer)
              /\ VerifyRoster(roster, signature, Admins(myTeam)) = Nil
              /\ store' = [store EXCEPT ![Directory(myTeam)] =
                               [roster |-> roster, signature |-> signature]]
        /\ (pc' = "keys" /\ updErr' \in {ErrDownload, ErrAdminKeys, ErrValidate}) =>
              /\ store' = store
              /\ store'[Directory(myTeam')] =
                     [roster |-> TeamRoster(myTeam'),
                      signature |-> myTeam'.signature]]_vars

\* C1 witness: a verified update has been saved over the trusted roster.
C1_Witness ==
    /\ pc = "keys"
    /\ updErr = Nil
    /\ Len(trace) = 6
    /\ trace[4] = EvBy("verify", Nil, "fpA")
    /\ trace[5] = Ev("save", Nil)
    /\ store["u1"].roster # SecondRoster
    /\ store["u1"].roster = TeamRoster(myTeam)

\* C2: a roster adopted in the membership phase is signed by an admin of the
\* roster the store held before, whoever the new roster names as admin.
C2_PriorAdminsVouch ==
    [][\A d \in UUIDs :
         (InMembershipPhase /\ store'[d] # store[d]) =>
            store'[d].signature.signer \in Range(Admins(Trusted(d)))]_vars

\* C2 witness: a roster that makes fpB the admin, signed by fpB, who is no
\* admin of the trusted roster, has been turned down.
C2_Witness ==
    /\ pc = "keys"
    /\ updErr = ErrValidate
    /\ trace[Len(trace)] = EvBy("verify", ErrSignature, "fpB")
    /\ "fpB" \in Range(Admins(Load(roster, NoSignature).team))
    /\ "fpB" \notin Range(Admins(myTeam))
    /\ store["u1"].roster = TeamRoster(myTeam)

\* C3: whatever the membership phase puts in the store for a team has the
\* directory's team UUID and the name of the roster first trusted there.
C3_UUIDAndNameImmutable ==
    [][\A d \in UUIDs :
         (InMembershipPhase /\ store'[d] # store[d]) =>
            LET t == Load(store'[d].roster, store'[d].signature).team IN
            /\ t.UUID = d
            /\ t.Name = firstName[d]]_vars

\* C4: ValidateUpdate returns an error whenever the UUID or the name of
\* after differs from before's, whatever the people and whoever me is: the
\* UUID error when the UUIDs differ, the name error when only the names do.
C4_ImmutableFieldsRejected ==
    verr # "none" =>
        /\ (before.UUID # after.UUID \/ before.Name # after.Name) => verr # Nil
        /\ before.UUID # after.UUID => verr = ErrUUIDChanged
        /\ (before.UUID = after.UUID /\ before.Name # after.Name) =>
              verr = ErrNameChanged

\* C4 witness: a change of name alone, with people lists that differ too, has
\* been turned down.
C4_Witness ==
    /\ verr = ErrNameChanged
    /\ before.UUID = after.UUID
    /\ before.Name # after.Name
    /\ before.People # after.People
    /\ ~me.IsAdmin

\* C5: when the service returns the roster the team was loaded from,
\* fetchAndUpdateRoster returns that team and no error after the unlock and
\* the download alone (no admin key is looked up, nothing is verified,
\* nothing is saved) and the store is left as it is.
C5_UnchangedRosterIsNoOp ==
    [][(InUpdateLoop /\ roster' = TeamRoster(memList[idx])) =>
        /\ store' = store
        /\ myTeam' = memList[idx]
        /\ updErr' = Nil
        /\ pc' = "keys"
        /\ trace' = <<Ev("unlock", Nil), Ev("fetch", Nil)>>]_vars

\* C5 witness: the service has returned the trusted roster and doUpdateTeam
\* has gone on to the team's keys.
C5_Witness ==
    /\ pc = "keys"
    /\ roster # NoRoster
    /\ roster = TeamRoster(myTeam)
    /\ store[Directory(myTeam)].roster = roster
    /\ updErr = Nil
    /\ trace = <<Ev("unlock", Nil), Ev("fetch", Nil)>>

\* C6: the membership phase never puts back in the store a roster that the
\* store held before and has since replaced.
C6_NoReplay ==
    [][\A d \in UUIDs :
         (InMembershipPhase /\ store'[d] # store[d]) =>
            store'[d].roster \notin superseded[d]]_vars

\* C7: teamFetch returns 0 exactly when no join request, no roster update
\* and no key fetch of the run met an error, an expired request included.
C7_ExitZeroIffNoError ==
    pc = "done" => (exit = "0" <=> ~failed)

\* C8: the turn of the join loop for an expired request asks for the record
\* to be deleted, unlocks no key, downloads no roster and leaves
\* processRequestsToJoinTeam with a non-nil error to return.
C8_ExpiredIsReported ==
    [][(InJoinLoop /\ Expired(reqList[idx])) =>
        /\ \E i \in DOMAIN trace' : trace'[i].call = "delete"
        /\ \A i \in DOMAIN trace' : trace'[i].call \notin {"unlock", "fetch"}
        /\ returnError' # Nil]_vars

\* C9: when the download for a request that has not expired answers
\* Forbidden, the request stays in the database, the store is not written
\* and the error to return is what it was; as long as no request of the pass
\* met an error, the error to return is nil.
C9_ForbiddenIsNotAnError ==
    [][/\ (/\ InJoinLoop
           /\ ~Expired(reqList[idx])
           /\ trace' = <<Ev("unlock", Nil), Ev("fetch", ErrForbidden)>>) =>
              /\ requests' = requests
              /\ store' = store
              /\ returnError' = returnError
              /\ failed' = failed
       /\ (pc' = "join" /\ ~failed') => returnError' = Nil]_vars

\* C9 witness: both requests of the pass were answered Forbidden, both are
\* still in the database and the pass is about to return nil.
C9_Witness ==
    /\ pc = "join"
    /\ Len(reqList) = 2
    /\ idx > Len(reqList)
    /\ trace = <<Ev("unlock", Nil), Ev("fetch", ErrForbidden)>>
    /\ requests = reqList
    /\ ~failed
    /\ returnError = Nil

\* The calls of a record, in order.
Calls(tr) == [i \in DOMAIN tr |-> tr[i].call]

\* C10: a request leaves the database only in the turn for an expired
\* request, or as the last step of a turn that downloaded the roster, loaded
\* it, verified it against the keys of its admins and saved it, each without
\* error and in that order, the store then holding that roster and signature.
C10_DeleteOnlyExpiredOrApproved ==
    [][requests' # requests =>
        \/ InJoinLoop /\ Expired(reqList[idx])
        \/ /\ pc = "join_delete"
           /\ Calls(trace) = <<"unlock", "fetch", "load", "verify", "save">>
           /\ \A i \in DOMAIN trace : trace[i].err = Nil
           /\ VerifyRoster(roster, signature, Admins(myTeam)) = Nil
           /\ store[Directory(myTeam)] =
                  [roster |-> roster, signature |-> signature]]_vars

\* C10 witness: an approved request has been deleted after its roster was
\* saved.
C10_Witness ==
    /\ pc = "join"
    /\ Calls(trace) = <<"unlock", "fetch", "load", "verify", "save", "delete">>
    /\ \A i \in DOMAIN trace : trace[i].err = Nil
    /\ Len(requests) < Len(reqList)
    /\ store["u2"] # EmptySlot

\* The turn of the join loop for one request, up to the save.
InJoinTurn == pc \in {"join", "join_load", "join_save"}

\* C11: when the turn for a request that has not expired ends because the
\* key did not unlock, the download failed other than with Forbidden, the
\* roster did not load, the signature did not verify, or the directory or
\* the save failed, the request is still in the database, the store is as
\* it was and the error is the one to return.
C11_FailedRequestIsKept ==
    [][(/\ InJoinTurn
        /\ pc' = "join"
        /\ idx' = idx + 1
        /\ trace'[Len(trace')].call # "delete"
        /\ trace'[Len(trace')].err \notin {Nil, ErrForbidden}) =>
           /\ requests' = requests
           /\ reqList[idx] \in Range(requests')
           /\ store' = store
           /\ returnError' = trace'[Len(trace')].err]_vars

\* C11 witness: the signature of a downloaded roster did not verify and the
\* request is still there.
C11_Witness ==
    /\ pc = "join"
    /\ idx = 2
    /\ Calls(trace) = <<"unlock", "fetch", "load", "verify">>
    /\ trace[4].err = ErrSignature
    /\ returnError = ErrSignature
    /\ reqList[1] \in Range(requests)
    /\ store["u2"] = EmptySlot

\* The key fetches of a record, in order.
KeyEvents(tr) == SelectSeq(tr, LAMBDA e : e.call = "key")

\* C12: no failure stops a loop of the run.  A turn of the join loop ends by
\* moving on to the next request of the same list, and the loop is left
\* only past the last request, for the membership loop over everything
\* user.Memberships lists (unless listing the memberships itself fails); a
\* turn of the membership loop always goes on to fetchTeamKeys, which asks
\* for the key of every person in order, whatever the earlier answers, and
\* the turn ends by moving on to the next membership; the run ends only past
\* the last membership.
C12_LoopsContinue ==
    [][/\ (pc \in {"join", "join_load", "join_save", "join_delete"}
           /\ pc' \in {"join", "join_load", "join_save", "join_delete"}) =>
              /\ reqList' = reqList
              /\ idx <= Len(reqList)
              /\ \/ idx' = idx /\ pc' # "join"
                 \/ idx' = idx + 1 /\ pc' = "join"
       /\ (pc \in {"join", "join_load", "join_save", "join_delete"}
           /\ pc' \notin {"join", "join_load", "join_save", "join_delete"}) =>
              /\ pc = "join"
              /\ idx = Len(reqList) + 1
              /\ \/ /\ pc' = "update"
                    /\ idx' = 1
                    /\ memList' = Memberships(store).memberships
                 \/ pc' = "panicked"
       /\ (pc = "join_return" /\ pc' # pc) =>
              \/ /\ pc' = "update"
                 /\ idx' = 1
                 /\ memList' = Memberships(store).memberships
              \/ pc' = "panicked"
       /\ (pc \in {"update", "upd_verify", "upd_save"} /\ pc' # "done") =>
              /\ memList' = memList
              /\ idx' = idx
              /\ idx <= Len(memList)
              /\ pc' \in {"upd_verify", "upd_save", "keys"}
              /\ pc' = "keys" => pidx' = 1 /\ KeyEvents(trace') = <<>>
       /\ (pc = "update" /\ pc' = "done") => idx = Len(memList) + 1
       /\ (pc = "keys" /\ pc' = "keys") =>
              /\ pidx <= Len(myTeam.People)
              /\ pidx' = pidx + 1
              /\ myTeam' = myTeam
              /\ trace'[Len(trace')].call = "key"
              /\ trace'[Len(trace')].by = myTeam.People[pidx].Fingerprint
       /\ (pc = "keys" /\ pc' # "keys") =>
              /\ [i \in DOMAIN KeyEvents(trace) |-> KeyEvents(trace)[i].by] =
                    [i \in DOMAIN myTeam.People |-> myTeam.People[i].Fingerprint]
              /\ pc' = "update"
              /\ idx' = idx + 1
              /\ memList' = memList]_vars

\* C12 witness: the run met an error before the second membership, the
\* first request is still waiting while a later one was approved, and in the
\* second membership the key of the second person was fetched after the
\* fetch for the first one had failed.
C12_Witness ==
    /\ pc = "keys"
    /\ sawError
    /\ Len(memList) = 2
    /\ idx = 2
    /\ Len(requests) = 1
    /\ requests[1].TeamUUID = "u1"
    /\ Len(myTeam.People) = 2
    /\ pidx = 3
    /\ KeyEvents(trace) = <<EvBy("key", ErrNotFoundKey, "fpA"),
                            EvBy("key", Nil, "fpB")>>

\* C13: when fetchTeamKeys has asked for every key and the fetch of some
\* person's key failed, whichever person, the error of fetchTeamKeys and
\* the error doUpdateTeam returns are not nil.
C13_AnyKeyFailureIsReturned ==
    (/\ pc = "keys"
     /\ pidx > Len(myTeam.People)
     /\ \E i \in DOMAIN KeyEvents(trace) : KeyEvents(trace)[i].err # Nil) =>
        /\ keysErr # Nil
        /\ doUpdateTeamResult # Nil

\* The fingerprints of a people list, in order.
Fingerprints(people) == [i \in DOMAIN people |-> people[i].Fingerprint]

\* C14: doUpdateTeam always goes on to fetchTeamKeys.  When the update
\* failed, the team whose keys are fetched is the one the membership was
\* loaded from, the keys asked for are those of its people, and doUpdateTeam
\* returns an error; when the update went through, the team is the one the
\* store now holds for the membership's directory.
C14_KeysOfTheTrustedTeam ==
    [][/\ (pc \in {"update", "upd_verify", "upd_save"} /\ pc' \notin {pc, "done"}) =>
              /\ pc' \in {"upd_verify", "upd_save", "keys"}
              /\ (pc' = "keys" /\ updErr' # Nil) => myTeam' = memList[idx]
              /\ (pc' = "keys" /\ updErr' = Nil) =>
                    /\ myTeam' = Load(store'[Directory(memList[idx])].roster,
                                       store'[Directory(memList[idx])].signature).team
                    /\ TeamRoster(myTeam') = store'[Directory(memList[idx])].roster
       /\ (pc = "keys" /\ pc' # pc) =>
              /\ [i \in DOMAIN KeyEvents(trace) |-> KeyEvents(trace)[i].by] =
                    Fingerprints(myTeam.People)
              /\ updErr # Nil =>
                    /\ myTeam = memList[idx]
                    /\ doUpdateTeamResult # Nil]_vars

\* C14 witness: a roster with other people than the trusted one failed the
\* signature check, and the keys of the people of the trusted roster have
\* all been asked for.
C14_Witness ==
    /\ pc = "keys"
    /\ updErr = ErrValidate
    /\ roster \in WellFormedRosters
    /\ Fingerprints(roster.People) # Fingerprints(myTeam.People)
    /\ myTeam = memList[idx]
    /\ pidx = Len(myTeam.People) + 1
    /\ [i \in DOMAIN KeyEvents(trace) |-> KeyEvents(trace)[i].by] =
          Fingerprints(myTeam.People)
    /\ keysErr = Nil

\* C15: fetchAdminPublicKeys returns the key of every admin, in order, when
\* each is in the local keyring or on the key server, and an error with no
\* key at all as soon as one is in neither; every lookup on the key server
\* comes right after a failed lookup of the same key in the local keyring.
C15_AllAdminKeysOrNone ==
    ret.called =>
        LET admins == Admins(args.t)
            known == args.localKeys \cup args.remoteKeys
            out == ret.out
        IN /\ (\E i \in DOMAIN admins : admins[i] \notin known) =>
                 out.err # Nil /\ out.adminKeys = <<>>
           /\ (\A i \in DOMAIN admins : admins[i] \in known) =>
                 out.err = Nil /\ out.adminKeys = admins
           /\ \A j \in DOMAIN out.asked :
                 IF out.asked[j].where = "local"
                 THEN j = 1 \/ out.asked[j - 1].fpr \in known
                 ELSE /\ j > 1
                      /\ out.asked[j - 1] =
                            [fpr |-> out.asked[j].fpr, where |-> "local"]
                      /\ out.asked[j].fpr \notin args.localKeys

\* C15 witness: the key of the first admin is in the local keyring, the key
\* of the second is nowhere, and no key is returned.
C15_Witness ==
    /\ ret.called
    /\ Admins(args.t) = <<"fpA", "fpB">>
    /\ args.localKeys = {"fpA"}
    /\ args.remoteKeys = {"fpA"}
    /\ ret.out.err = ErrNoKey
    /\ ret.out.adminKeys = <<>>
    /\ ret.out.asked = <<[fpr |-> "fpA", where |-> "local"],
                          [fpr |-> "fpB", where |-> "local"],
                          [fpr |-> "fpB", where |-> "remote"]>>

\* The rules an update has to keep: same UUID, same name, me an admin of
\* after, an admin left, no fingerprint twice.
RulesHold(b, a, signer) ==
    /\ b.UUID = a.UUID
    /\ b.Name = a.Name
    /\ \E i \in DOMAIN a.People :
          a.People[i].Fingerprint = signer.Fingerprint /\ a.People[i].IsAdmin
    /\ Admins(a) # <<>>
    /\ \A i, j \in DOMAIN a.People :
          a.People[i].Fingerprint = a.People[j].Fingerprint => i = j

\* C16: ValidateUpdate returns no error for an update that keeps every
\* rule.
C16_ValidUpdateAccepted ==
    (verr # "none" /\ RulesHold(before, after, me)) => verr = Nil

\* C17: ValidateUpdate returns an error for every update that leaves no
\* admin in after, with the UUID and the name unchanged and no fingerprint
\* twice as with any other.
C17_NoAdminLeftIsRejected ==
    (verr # "none" /\ Admins(after) = <<>>) => verr # Nil

\* C17 witness: an update that keeps UUID and name, lists two different
\* people and leaves no admin has been turned down.
C17_Witness ==
    /\ verr \notin {"none", Nil}
    /\ before.UUID = after.UUID
    /\ before.Name = after.Name
    /\ Admins(before) # <<>>
    /\ Len(after.People) = 2
    /\ after.People[1].Fingerprint # after.People[2].Fingerprint
    /\ Admins(after) = <<>>

\* C18: GetTeamRoster returns ErrTeamNotFound for a 404 answer,
\* ErrForbidden for a 403 answer, the transport error when there is no
\* response, and for any other status outside 2xx an error that is neither
\* of the two; with every error the roster and the signature are empty.
C18_FailureKinds ==
    ret.called =>
        LET h == args.http
            out == ret.out
        IN /\ h.failed => out.err = ErrTransport
           /\ (~h.failed /\ h.status = StatusNotFound) => out.err = ErrTeamNotFound
           /\ (~h.failed /\ h.status = StatusForbidden) => out.err = ErrForbidden
           /\ (~h.failed /\ ~isSuccess(h.status)
                 /\ h.status \notin {StatusNotFound, StatusForbidden}) =>
                 out.err \notin {Nil, ErrForbidden, ErrTeamNotFound}
           /\ out.err # Nil =>
                 out.roster = NoRoster /\ out.signature = NoSignature

\* C18 witness: a 403 answer whose body holds a signed roster has given
\* ErrForbidden and neither roster nor signature.
C18_Witness ==
    /\ ret.called
    /\ ~args.http.failed
    /\ args.http.status = StatusForbidden
    /\ args.http.body = "json"
    /\ args.http.roster = SecondRoster
    /\ args.http.signature = Sign("fpA", SecondRoster)
    /\ ret.out = [roster |-> NoRoster, signature |-> NoSignature,
                  err |-> ErrForbidden]

\* C19: teamFetch never panics: whatever fails, the run is not cut short
\* before an exit code is returned.
C19_NeverPanics ==
    pc # "panicked" /\ exit # "panic"

\* C20: within processRequestsToJoinTeam, once the error to return is not
\* nil no later turn of the loop makes it nil again.
C20_ReturnErrorOnlyGrows ==
    [][(/\ pc \in {"join", "join_load", "join_save", "join_delete"}
        /\ pc' \in {"join", "join_load", "join_save", "join_delete"}
        /\ returnError # Nil) => returnError' # Nil]_vars

C22_UploadOnlyAfterLoadAndValidate ==
    ret.called =>
      LET calls == ret.calls
          Uploads == { i \in DOMAIN calls :
                         calls[i].call = "promptAndSignAndUploadRoster" }
      IN /\ \A i \in Uploads :
              /\ \E j \in 1..(i - 1) : \E k \in (j + 1)..(i - 1) :
                    /\ calls[j] = Ev("Load", Nil)
                    /\ calls[k] = Ev("ValidateUpdate", Nil)
              /\ Load(ret.newRoster, NoSignature) = [team |-> after, err |-> Nil]
              /\ ValidateUpdate(args.myTeam, after, args.me) = Nil
         /\ (/\ ret.at = "done"
             /\ \/ Load(ret.newRoster, NoSignature).err # Nil
                \/ ValidateUpdate(args.myTeam, after, args.me) # Nil)
            => ret.exit = "1" /\ Uploads = {}
         /\ ret.exit = "0" =>
              calls[Len(calls)] = Ev("promptAndSignAndUploadRoster", Nil)

\* A well-formed edited roster with the UUID and the name of the current
\* team was loaded, validation refused it, and doEditTeam ended with 1.
C22_Witness ==
    /\ ret.called
    /\ ret.at = "done"
    /\ ret.exit = "1"
    /\ Calls(ret.calls) = <<"writeRosterToTempfile", "runEditor", "ReadFile",
                            "Load", "ValidateUpdate">>
    /\ ret.calls[4].err = Nil
    /\ ret.calls[5].err # Nil
    /\ after.UUID = args.myTeam.UUID
    /\ after.Name = args.myTeam.Name

\* C23: GetPublicKeyByFingerprint never returns a key whose fingerprint is
\* not the one asked for: a non-nil key with a nil error has the fingerprint
\* of the argument; a response with another key, an empty body or a status
\* outside 2xx gives a nil key and an error, which for 404 is
\* ErrPublicKeyNotFound.
C23_OnlyTheRequestedKey ==
    ret.called =>
      LET out == ret.out
          http == args.http
          answered == args.requestErr = Nil /\ ~http.failed
      IN /\ (out.key # NoKey /\ out.err = Nil) =>
               out.key.Fingerprint = args.fingerprint
         /\ (out.key = NoKey) <=> (out.err # Nil)
         /\ (/\ answered
             /\ \/ ~isSuccess(http.status)
                \/ http.body.kind = "empty"
                \/ http.body.kind = "armored" /\ http.body.of # args.fingerprint)
            => out.key = NoKey /\ out.err # Nil
         /\ (answered /\ http.status = StatusNotFound) =>
               out.err = ErrPublicKeyNotFound

\* The server answered 200 with the armored key of another fingerprint, and
\* the call returned no key and an error.
C23_Witness ==
    /\ ret.called
    /\ args.requestErr = Nil
    /\ ~args.http.failed
    /\ args.http.status = StatusOK
    /\ args.http.body.kind = "armored"
    /\ args.http.body.of # args.fingerprint
    /\ ret.out = [key |-> NoKey, err |-> ErrWrongKey]

\* C24: when the transport fails and there is no HTTP response,
\* RequestToJoinTeam returns the transport error; it does not crash on the
\* nil response.
C24_TransportFailureIsReturned ==
    (ret.called /\ args.requestErr = Nil /\ args.http.failed) =>
        ret.out = [err |-> ErrTransport, panicked |-> FALSE]

====
